---- MODULE Spec2Model ----
(***************************************************************************)
(* Bridge card-play state machine of gym-bridge: BridgeEnv (one action per *)
(* step call) and BridgeSimultaneousActionsEnv (one action map per step    *)
(* call), with the CardList container they are built on.                   *)
(***************************************************************************)
EXTENDS Integers, Sequences, FiniteSets, TLC

VARIABLES variant, reward_mode, players_roles, trump, contract_value,
          active_player, hands, table, played_tricks, won_tricks,
          current_suit, n_cards_on_table, tricks_played, rewards,
          last, free, resets, np_random, dealt

vars == <<variant, reward_mode, players_roles, trump, contract_value,
          active_player, hands, table, played_tricks, won_tricks,
          current_suit, n_cards_on_table, tricks_played, rewards,
          last, free, resets, np_random, dealt>>

(***************************************************************************)
(* Bounds of the exploration.  A run is a sequence of reset and step calls  *)
(* on one env object.  The caller proposes the first legal card, except in *)
(* one step call of the first episode (variable free), where it proposes   *)
(* any value of ActionMenu; the substitution may pick any legal card.      *)
(***************************************************************************)
\* number of reset scenarios (deal, declarer, trump, contract value) explored
NumDeals == 2
\* the caller may deviate from proposing the first legal card only while fewer
\* than FreeTricks tricks are resolved or fewer than FreeTricks remain
FreeTricks == 2
\* number of reset calls of a run
MaxResets == 2
\* the seeds a caller passes to seed() are 0..MaxSeed
MaxSeed == 1

(***************************************************************************)
(* Program constants.                                                      *)
(***************************************************************************)
\* Python's None where an integer (a suit, a card) is expected
None == -2
\* the string-typed None (active_player, trick_winner, a role before reset)
NoPlayer == "None"
\* placeholder action of a seat that is not active (simultaneous env)
Placeholder == -1
NumCards == 52
NumTricks == 13
\* tricks_played value at which the sequential env runs its lookahead
LookaheadAt == 12

players == <<"N", "E", "S", "W">>
Seats == {"N", "E", "S", "W"}
RewardModes == {"win", "win_tricks", "win_points", "play_cards"}
Variants == {"seq", "sim"}

index(player) == CHOOSE i \in 1..4 : players[i] = player

\* mutant: the seats are walked counter-clockwise
_get_next_player_ccw(player) == players[((index(player) + 2) % 4) + 1]

\* BridgeEnv._get_next_player: next position in clockwise order
_get_next_player(player) == players[(index(player) % 4) + 1]

\* mutant: the winner is credited in place of its partner
Partner_self(player) == player

\* mutant: the seat next to the winner is credited instead of its partner
Partner_next(player) == _get_next_player(player)

\* the seat two places clockwise: _get_next_player(_get_next_player(player))
Partner(player) == _get_next_player(_get_next_player(player))

(***************************************************************************)
(* CardList: a Python list of integers.                                    *)
(***************************************************************************)
EmptyCardList == << >>

InList(x, cl) == \E i \in 1..Len(cl) : cl[i] = x

Elems(cl) == {cl[i] : i \in 1..Len(cl)}

\* number of occurrences of x in cl
Count(x, cl) == Cardinality({i \in 1..Len(cl) : cl[i] = x})

\* mutant: the card is appended twice
add_cards_twice(cl, card) == Append(Append(cl, card), card)

\* CardList.add_cards with an int argument
add_cards(cl, card) == Append(cl, card)

\* CardList.add_cards with a list argument
add_cards_list(cl, cards) == cl \o cards

\* mutant: the card stays in the list
remove_card_keeps(cl, card) == cl

\* mutant: the played card and the last card of the list both leave
remove_card_twice(cl, card) ==
    LET i == CHOOSE k \in 1..Len(cl) : cl[k] = card /\ \A j \in 1..(k-1) : cl[j] # card
        rest == SubSeq(cl, 1, i-1) \o SubSeq(cl, i+1, Len(cl))
    IN  SubSeq(rest, 1, Len(rest)-1)

\* list.remove: drops the first occurrence of card
remove_card(cl, card) ==
    LET i == CHOOSE k \in 1..Len(cl) : cl[k] = card /\ \A j \in 1..(k-1) : cl[j] # card
    IN  SubSeq(cl, 1, i-1) \o SubSeq(cl, i+1, Len(cl))

\* CardList.remove_card() without argument: list.pop()
remove_last(cl) == SubSeq(cl, 1, Len(cl)-1)

\* mutant: a list with one card left counts as empty
is_empty_one(cl) == Len(cl) <= 1

\* CardList.is_empty
is_empty(cl) == Len(cl) = 0

get_suit_cards(cl, suit) == SelectSeq(cl, LAMBDA x : x % 4 = suit)

\* mutant: the trump suit gives no power
one_card_power_notrump(cl, suit, trmp) ==
    LET card == cl[1]
    IN  IF card % 4 = suit THEN card + 100 ELSE card

\* CardList.one_card_power of a one-card list
one_card_power(cl, suit, trmp) ==
    LET card == cl[1]
    IN  IF trmp # None /\ card % 4 = trmp THEN card + 200
        ELSE IF card % 4 = suit THEN card + 100
        ELSE card

\* the sort key: the card itself (list.sort()) or its suit (key=lambda x: x % 4)
SortKey(x, by_suit) == IF by_suit THEN x % 4 ELSE x

\* stable insertion of x into a list sorted by the key
RECURSIVE InsertByKey(_, _, _)
InsertByKey(x, cl, by_suit) ==
    IF cl = << >> THEN <<x>>
    ELSE IF SortKey(x, by_suit) < SortKey(Head(cl), by_suit) THEN <<x>> \o cl
    ELSE <<Head(cl)>> \o InsertByKey(x, Tail(cl), by_suit)

\* list.sort: stable
RECURSIVE SortByKey(_, _)
SortByKey(cl, by_suit) ==
    IF cl = << >> THEN << >>
    ELSE LET n == Len(cl)
         IN  InsertByKey(cl[n], SortByKey(SubSeq(cl, 1, n-1), by_suit), by_suit)

\* CardList.sort_cards: sort(), then sort(key=suit)
sort_cards(cl) == SortByKey(SortByKey(cl, FALSE), TRUE)

\* numpy.argmax over a 4-element list: first index of the maximum
argmax(xs) ==
    CHOOSE i \in 1..Len(xs) :
        /\ \A j \in 1..Len(xs) : xs[j] <= xs[i]
        /\ \A j \in 1..(i-1) : xs[j] < xs[i]

(***************************************************************************)
(* Construction and reset.                                                 *)
(***************************************************************************)
EmptyHands == [p \in Seats |-> EmptyCardList]

EmptyTricks == [i \in 0..(NumTricks-1) |-> [p \in Seats |-> EmptyCardList]]

ZeroMap == [p \in Seats |-> 0]

NoRoles == [declarer |-> NoPlayer, defender_1 |-> NoPlayer,
            dummy |-> NoPlayer, defender_2 |-> NoPlayer]

\* the initial_state argument of reset: the keys it holds and their values
NoConfig == [keys |-> {}, player |-> NoPlayer, trump |-> None,
             contract_value |-> None, hands |-> EmptyHands]

\* the record of the last call; pending holds the seats whose illegal proposal
\* has not yet been followed by a call that made them active, owed tells that
\* the call made such a seat active
NoStep == [op |-> "init", raised |-> "none", player |-> NoPlayer,
           config |-> NoConfig,
           actions |-> [p \in Seats |-> None],
           legal |-> EmptyCardList, card |-> None, valid |-> TRUE, invalid |-> {},
           trick_winner |-> NoPlayer, observed |-> NoPlayer, reward |-> 0,
           done |-> FALSE, dones |-> [p \in Seats |-> FALSE],
           pending |-> {}, owed |-> FALSE]

\* the seeds passed to seed()
SeedValues == 0..MaxSeed

\* dealt[s] before a reset call has directly followed seed(s)
NoDeal == EmptyHands

\* BridgeEnv.__init__ / BridgeSimultaneousActionsEnv.__init__; np_random is the
\* seed of self.np_random, dealt records the hands dealt by the first reset call
\* that directly followed seed(s)
Init ==
    /\ variant \in Variants
    /\ reward_mode \in RewardModes
    /\ players_roles = NoRoles
    /\ trump = None
    /\ contract_value = None
    /\ active_player = NoPlayer
    /\ hands = EmptyHands
    /\ table = EmptyHands
    /\ played_tricks = EmptyTricks
    /\ won_tricks = ZeroMap
    /\ current_suit = None
    /\ n_cards_on_table = 0
    /\ tricks_played = 0
    /\ rewards = ZeroMap
    /\ last = NoStep
    /\ free = TRUE
    /\ resets = 0
    /\ np_random = None
    /\ dealt = [s \in SeedValues |-> NoDeal]

\* mutant: the two defenders are swapped
_set_players_roles_swapped(declarer) ==
    [declarer |-> declarer,
     defender_1 |-> _get_next_player(_get_next_player(_get_next_player(declarer))),
     dummy |-> _get_next_player(_get_next_player(declarer)),
     defender_2 |-> _get_next_player(declarer)]

\* BridgeEnv._set_players_roles for a valid declarer
_set_players_roles(declarer) ==
    [declarer |-> declarer,
     defender_1 |-> _get_next_player(declarer),
     dummy |-> _get_next_player(_get_next_player(declarer)),
     defender_2 |-> _get_next_player(_get_next_player(_get_next_player(declarer)))]

\* the seat that gets card c in the k-th explored outcome of shuffle
DealOwner(k, c) == players[(((c \div 4) * (k + 1) + (c % 4)) % 4) + 1]

\* a set of cards as a list, highest first (a slice of the shuffled deck)
RECURSIVE Slice(_)
Slice(S) ==
    IF S = {} THEN << >>
    ELSE LET m == CHOOSE x \in S : \A y \in S : y <= x
         IN  <<m>> \o Slice(S \ {m})

\* BridgeEnv._deal_random_cards: add_cards(random_cards[..]).sort_cards() per seat
_deal_random_cards(k) ==
    [p \in Seats |->
        sort_cards(add_cards_list(EmptyCardList,
                                  Slice({c \in 0..(NumCards-1) : DealOwner(k, c) = p})))]

\* the deals explored, computed once
Deals == [k \in 0..(NumDeals-1) |-> _deal_random_cards(k)]

\* the outcomes of choice(...) explored with the k-th deal
TrumpChoice(k) == <<3, None, 0, 1, 2>>[(k % 5) + 1]
DeclarerChoice(k) == players[((2 * k + 1) % 4) + 1]
ContractChoice(k) == ((2 * k + 2) % 7) + 1

\* mutant: the declarer makes the opening lead
OpeningLead_declarer(roles) == roles.declarer

\* the seat that is active after reset: self.players_roles.get('defender_1', 'E')
OpeningLead(roles) == roles.defender_1

\* reset(initial_state=None); self.rewards is not touched by reset
Reset ==
    /\ resets < MaxResets
    /\ \E k \in 0..(NumDeals-1) :
        /\ players_roles' = _set_players_roles(DeclarerChoice(k))
        /\ trump' = TrumpChoice(k)
        /\ contract_value' = ContractChoice(k)
        /\ active_player' = OpeningLead(_set_players_roles(DeclarerChoice(k)))
        /\ hands' = Deals[k]
        /\ dealt' = IF last.op = "seed" /\ dealt[np_random] = NoDeal
                    THEN [dealt EXCEPT ![np_random] = Deals[k]]
                    ELSE dealt
    /\ tricks_played' = 0
    /\ n_cards_on_table' = 0
    /\ table' = EmptyHands
    /\ played_tricks' = EmptyTricks
    /\ won_tricks' = ZeroMap
    /\ current_suit' = None
    /\ last' = [NoStep EXCEPT !.op = "reset"]
    /\ resets' = resets + 1
    /\ free' = (free /\ resets = 0)
    /\ UNCHANGED <<variant, reward_mode, rewards, np_random>>

\* seed(seed): a new generator is stored in self.np_random; nothing reads it
Seed ==
    /\ resets < MaxResets
    /\ last.op # "seed"
    /\ \E s \in SeedValues : np_random' = s
    /\ last' = [NoStep EXCEPT !.op = "seed", !.pending = last.pending]
    /\ UNCHANGED <<variant, reward_mode, players_roles, trump, contract_value,
                   active_player, hands, table, played_tricks, won_tricks,
                   current_suit, n_cards_on_table, tricks_played, rewards,
                   free, resets, dealt>>

(***************************************************************************)
(* reset(initial_state) with a dict, and the private seat helper.          *)
(***************************************************************************)
ConfigKeys == {"player", "trump", "contract_value", "hands"}

\* pinned hands a caller passes: a full deal (lists in the caller's order, highest
\* card first), and malformed ones: 12 cards for N, E holding a card of N, S
\* holding one of its cards twice, W holding the card id 52
GoodHands == [p \in Seats |-> Slice({c \in 0..(NumCards-1) : DealOwner(0, c) = p})]
ShortHands == [GoodHands EXCEPT !["N"] = remove_last(@)]
DupAcross == [GoodHands EXCEPT !["E"] = <<GoodHands["N"][1]>> \o Tail(@)]
DupWithin == [GoodHands EXCEPT !["S"] = <<@[2]>> \o Tail(@)]
OutOfRange == [GoodHands EXCEPT !["W"] = add_cards(remove_last(@), NumCards)]
PinnedHands == {GoodHands, ShortHands, DupAcross, DupWithin, OutOfRange}

\* pinned declarers (one of them not a seat), trumps (no-trump) and contract values
PinnedPlayers == {"S", "X"}
PinnedTrumps == {None}
PinnedValues == {3}

\* the dict with the keys K; a key that is absent has no value
Config(K, p, t, v, h) ==
    [keys |-> K,
     player |-> IF "player" \in K THEN p ELSE NoPlayer,
     trump |-> IF "trump" \in K THEN t ELSE None,
     contract_value |-> IF "contract_value" \in K THEN v ELSE None,
     hands |-> IF "hands" \in K THEN h ELSE EmptyHands]

Configs ==
    {Config(K, p, t, v, h) : K \in SUBSET ConfigKeys, p \in PinnedPlayers,
                             t \in PinnedTrumps, v \in PinnedValues, h \in PinnedHands}

\* mutant: an unknown declarer is treated like an omitted one
ResetRaises_lenient(cfg) ==
    IF variant = "sim" /\ "hands" \notin cfg.keys THEN "AttributeError" ELSE "none"

\* the error reset(initial_state) raises: _set_players_roles on an unknown seat,
\* initial_state.get('hands').get(..) on a missing key in the simultaneous env
ResetRaises(cfg) ==
    IF "player" \in cfg.keys /\ cfg.player \notin Seats THEN "Exception"
    ELSE IF variant = "sim" /\ "hands" \notin cfg.keys THEN "AttributeError"
    ELSE "none"

\* initial_state.get(key, default) for the three scalar keys: the default is a
\* random choice in BridgeEnv and 'N', 0, 0 in BridgeSimultaneousActionsEnv
ConfigPlayer(cfg, k) ==
    IF "player" \in cfg.keys /\ cfg.player \in Seats THEN cfg.player
    ELSE IF variant = "seq" THEN DeclarerChoice(k) ELSE "N"

ConfigTrump(cfg, k) ==
    IF "trump" \in cfg.keys THEN cfg.trump
    ELSE IF variant = "seq" THEN TrumpChoice(k) ELSE 0

ConfigValue(cfg, k) ==
    IF "contract_value" \in cfg.keys THEN cfg.contract_value
    ELSE IF variant = "seq" THEN ContractChoice(k) ELSE 0

\* the hands after reset(initial_state): the lists as given, or a random deal
ConfigHands(cfg, k) == IF "hands" \in cfg.keys THEN cfg.hands ELSE Deals[k]

\* whether reset(initial_state) draws anything at random
ConfigIsRandom(cfg) == variant = "seq" /\ cfg.keys # ConfigKeys

\* reset(initial_state) with a dict: the counters are zeroed first, then roles,
\* trump and contract value are set, then self.state is replaced; an error leaves
\* what was assigned before it
ResetConfig ==
    /\ resets < MaxResets
    /\ \E cfg \in Configs :
        \E k \in (IF ConfigIsRandom(cfg) THEN 0..(NumDeals-1) ELSE {0}) :
            LET error == ResetRaises(cfg)
                roles == _set_players_roles(ConfigPlayer(cfg, k))
            IN  /\ tricks_played' = 0
                /\ n_cards_on_table' = 0
                /\ IF error = "Exception"
                   THEN UNCHANGED <<players_roles, trump, contract_value>>
                   ELSE /\ players_roles' = roles
                        /\ trump' = ConfigTrump(cfg, k)
                        /\ contract_value' = ConfigValue(cfg, k)
                /\ IF error # "none"
                   THEN UNCHANGED <<active_player, hands, table, played_tricks,
                                    won_tricks, current_suit>>
                   ELSE /\ active_player' = OpeningLead(roles)
                        /\ hands' = ConfigHands(cfg, k)
                        /\ table' = EmptyHands
                        /\ played_tricks' = EmptyTricks
                        /\ won_tricks' = ZeroMap
                        /\ current_suit' = None
                /\ last' = [NoStep EXCEPT !.op = "reset", !.raised = error, !.config = cfg,
                                          !.pending = IF error # "none" THEN last.pending
                                                      ELSE {}]
    /\ resets' = resets + 1
    /\ free' = FALSE
    /\ UNCHANGED <<variant, reward_mode, rewards, np_random, dealt>>

\* a call of _get_next_player(player) on the constructed env, for a seat or for
\* a value that is no seat; last.player is the value returned
GetNextPlayer ==
    /\ last.op = "init"
    /\ \E player \in Seats \cup {"X"} :
        last' = [NoStep EXCEPT
                    !.op = "next",
                    !.config = [NoConfig EXCEPT !.player = player],
                    !.raised = IF player \in Seats THEN "none" ELSE "Exception",
                    !.player = IF player \in Seats THEN _get_next_player(player)
                               ELSE NoPlayer]
    /\ UNCHANGED <<variant, reward_mode, players_roles, trump, contract_value,
                   active_player, hands, table, played_tricks, won_tricks,
                   current_suit, n_cards_on_table, tricks_played, rewards,
                   free, resets, np_random, dealt>>

(***************************************************************************)
(* Legal actions, trick resolution, rewards.                               *)
(***************************************************************************)
\* mutant: the led suit is not enforced
LegalOf_any(hand, suit) == hand

\* mutant: no fallback to the whole hand when the seat has no card of the suit
LegalOf_nofallback(hand, suit) ==
    IF suit = None THEN hand ELSE SelectSeq(hand, LAMBDA x : x % 4 = suit)

\* the follow-suit rule of get_available_actions on one hand
LegalOf(hand, suit) ==
    IF suit = None THEN hand
    ELSE IF Len(get_suit_cards(hand, suit)) < 1 THEN hand
    ELSE get_suit_cards(hand, suit)

\* get_available_actions(player) of either env, integer action mode
get_available_actions(player) ==
    IF variant = "sim" /\ player # active_player
    THEN add_cards(EmptyCardList, Placeholder)
    ELSE LegalOf(hands[player], current_suit)

\* mutant: an entry counts as valid only if all four entries are
actions_are_valid_all(actions, p) ==
    \A q \in Seats : InList(actions[q], get_available_actions(q))

\* the validity of a seat's entry: action in self.get_available_actions(player)
actions_are_valid(actions, p) == InList(actions[p], get_available_actions(p))

\* the list of card powers in the order of dict.values(): N, E, S, W
Powers(cls, suit) == [i \in 1..4 |-> one_card_power(cls[players[i]], suit, trump)]

\* _get_trick_winner on a table of four one-card lists
_get_trick_winner(tbl, suit) == players[argmax(Powers(tbl, suit))]

\* mutant: every trick is written to entry 0
ClearedTricks_first(tbl) ==
    [played_tricks EXCEPT ![0] =
        [p \in Seats |-> add_cards(played_tricks[0][p], tbl[p][Len(tbl[p])])]]

\* _clear_table: every table slot is popped into played_tricks[tricks_played]
ClearedTricks(tbl) ==
    [played_tricks EXCEPT ![tricks_played] =
        [p \in Seats |-> add_cards(played_tricks[tricks_played][p], tbl[p][Len(tbl[p])])]]

\* mutant: the table keeps its cards
ClearedTable_keep(tbl) == tbl

ClearedTable(tbl) == [p \in Seats |-> remove_last(tbl[p])]

\* the contract outcome written by the win / win_points branches
ContractRewards(won, bonus) ==
    LET made == won[players_roles.declarer] + bonus >= contract_value + 6
    IN  [p \in Seats |->
            IF p \in {players_roles.declarer, players_roles.dummy}
            THEN (IF made THEN 1 ELSE 0)
            ELSE (IF made THEN 0 ELSE 1)]

\* the seat the sequential env's lookahead names: the strongest remaining card,
\* with the trick winner's first card passed as the suit
next_trick_winner(h, tw) == players[argmax(Powers(h, h[tw][1]))]

\* the error the lookahead raises, "none" if it runs through
LookaheadRaises(h, tw) ==
    IF tw = NoPlayer THEN "KeyError"
    ELSE IF Len(h[tw]) = 0 THEN "IndexError"
    ELSE IF \E p \in Seats : Len(h[p]) # 1 THEN "AssertionError"
    ELSE "none"

\* penalty of BridgeEnv._get_rewards for an unavailable action
PenaltySeq == IF reward_mode = "win_points" THEN -1000 ELSE -2

\* penalty of BridgeSimultaneousActionsEnv._get_rewards
PenaltySim == -1000

\* BridgeEnv._get_rewards before the penalty override, given that nothing raises
RewardsSeqBase(tw, valid, actor, h, tp, won) ==
    IF reward_mode \in {"win", "win_points"}
    THEN IF tp = LookaheadAt
         THEN ContractRewards(won,
                  IF next_trick_winner(h, tw) \in {players_roles.dummy} THEN 1 ELSE 0)
         ELSE rewards
    ELSE IF reward_mode = "win_tricks"
    THEN IF tw # NoPlayer
         THEN LET r1 == [p \in Seats |-> IF p \in {tw, Partner(tw)} THEN 1 ELSE 0]
              IN  IF tp = LookaheadAt
                  THEN LET ntw == next_trick_winner(h, tw)
                           r2 == [r1 EXCEPT ![ntw] = @ + 1]
                       IN  [r2 EXCEPT ![Partner(ntw)] = @ + 1]
                  ELSE r1
         ELSE rewards
    ELSE IF valid THEN [rewards EXCEPT ![actor] = 1] ELSE rewards

\* whether BridgeEnv._get_rewards raises, and what
RewardsSeqRaises(tw, h, tp) ==
    IF reward_mode \in {"win", "win_points"} /\ tp = LookaheadAt
    THEN LookaheadRaises(h, tw)
    ELSE IF reward_mode = "win_tricks" /\ tw # NoPlayer /\ tp = LookaheadAt
    THEN LookaheadRaises(h, tw)
    ELSE "none"

\* BridgeEnv._get_rewards(trick_winner, chosen_card_is_valid)
_get_rewards_seq(tw, valid, actor, h, tp, won) ==
    LET base == RewardsSeqBase(tw, valid, actor, h, tp, won)
    IN  IF valid THEN base ELSE [base EXCEPT ![actor] = PenaltySeq]

\* BridgeSimultaneousActionsEnv._get_rewards(trick_winner, chosen_cards_are_valid)
_get_rewards_sim(tw, invalid, tp, won) ==
    LET base ==
            IF reward_mode \in {"win", "win_points"}
            THEN IF tp = NumTricks THEN ContractRewards(won, 0) ELSE rewards
            ELSE IF reward_mode = "win_tricks"
            THEN IF tw # NoPlayer
                 THEN [p \in Seats |-> IF p \in {tw, Partner(tw)} THEN 1 ELSE 0]
                 ELSE rewards
            ELSE [p \in Seats |-> IF p \in invalid THEN rewards[p] ELSE 0]
    IN  [p \in Seats |-> IF p \in invalid THEN PenaltySim ELSE base[p]]

(***************************************************************************)
(* The step call.                                                          *)
(***************************************************************************)
\* cards that left the hands: on the table or in the trick history
PlayedCards ==
    UNION {Elems(table[p]) : p \in Seats}
    \cup UNION {Elems(played_tricks[i][p]) : i \in 0..(NumTricks-1), p \in Seats}

Lowest(S) == IF S = {} THEN {} ELSE {CHOOSE x \in S : \A y \in S : x <= y}

\* the values a caller proposes for the active seat: every legal card, and one
\* value of each illegal kind (placeholder, out of range, held but not legal,
\* held by another seat, already played)
ActionMenu(actor) ==
    LET legal == LegalOf(hands[actor], current_suit)
    IN  Elems(legal)
        \cup {Placeholder, NumCards}
        \cup Lowest(Elems(hands[actor]) \ Elems(legal))
        \cup Lowest(UNION {Elems(hands[q]) : q \in Seats \ {actor}})
        \cup Lowest(PlayedCards)

\* what a seat that is not active submits instead of the placeholder
OtherCard(q) == IF Len(hands[q]) > 0 THEN hands[q][1] ELSE 0

\* the action maps of the simultaneous env: the active seat's entry, and at most
\* one other seat submitting a card instead of the placeholder
ActionMaps(actor, action) ==
    {[p \in Seats |-> IF p = actor THEN action
                      ELSE IF p \in D THEN OtherCard(p) ELSE Placeholder] :
        D \in {{}} \cup {{q} : q \in Seats \ {actor}}}

\* the step calls in which the caller may deviate from the first legal card
FreeNow == tricks_played < FreeTricks \/ tricks_played >= NumTricks - FreeTricks

\* a step call that raises before anything is changed
StepRejected(error, actions) ==
    /\ last' = [NoStep EXCEPT !.op = "step", !.raised = error, !.player = active_player,
                              !.actions = actions, !.pending = last.pending]
    /\ UNCHANGED <<variant, reward_mode, players_roles, trump, contract_value,
                   active_player, hands, table, played_tricks, won_tricks,
                   current_suit, n_cards_on_table, tricks_played, rewards,
                   free, resets, np_random, dealt>>

\* the assignments of one step call
Commit(h, t, pt, won, cs, n, tp, rw, ap, rec) ==
    /\ hands' = h
    /\ table' = t
    /\ played_tricks' = pt
    /\ won_tricks' = won
    /\ current_suit' = cs
    /\ n_cards_on_table' = n
    /\ tricks_played' = tp
    /\ rewards' = rw
    /\ active_player' = ap
    /\ last' = rec
    /\ UNCHANGED <<variant, reward_mode, players_roles, trump, contract_value, resets,
                   np_random, dealt>>

\* what _get_trick_winner and _clear_table raise on the table t with n cards counted
TrickRaises(t, n) ==
    IF n # 4 \/ \E p \in Seats : Len(t[p]) # 1 THEN "AssertionError"
    ELSE IF tricks_played \notin 0..(NumTricks-1) THEN "KeyError"
    ELSE "none"

\* mutant: one flag for the whole episode, true when every hand is empty
Dones_episode(h) == [p \in Seats |-> \A q \in Seats : is_empty(h[q])]

\* the dones map of BridgeSimultaneousActionsEnv.step
Dones(h) == [p \in Seats |-> is_empty(h[p])]

\* mutant: step reports for the seat that has just acted
Reported_actor(actor, next_player) == actor

\* the seat whose observation, reward and done flag BridgeEnv.step returns:
\* state['active_player'] as _game_controller left it
Reported(actor, next_player) == next_player

\* mutant: the dummy's hand is hidden whenever the table is empty
DummyHidden_table == n_cards_on_table = 0

\* the condition under which get_player_observation blanks dummy_hand
DummyHidden == (tricks_played = 0) /\ (n_cards_on_table = 0)

\* get_player_observation(player) in observation_space_mode 'integer'
get_player_observation(player) ==
    [player_position |-> index(player) - 1,
     dummy_position |-> index(players_roles.dummy) - 1,
     active_player_position |-> index(active_player) - 1,
     player_hand |-> hands[player],
     dummy_hand |-> IF DummyHidden THEN EmptyCardList ELSE hands[players_roles.dummy],
     table |-> table,
     played_tricks |-> played_tricks,
     current_suit |-> current_suit,
     trump |-> trump,
     contract_value |-> contract_value,
     won_tricks |-> won_tricks[player]]

\* mutant: every card played to an open trick overwrites the led suit
LedSuitAfter_last(cs, card) == card % 4

\* the led suit after a card that does not complete the trick: set by the first
\* card only
LedSuitAfter(cs, card) == IF cs = None THEN card % 4 ELSE cs

\* _game_controller followed by the rest of step, for a non-empty legal set or a
\* proposal that is in it; pick is the outcome of choice(available actions)
_game_controller(actions, pick) ==
    LET actor == active_player
        action == actions[actor]
        legal == get_available_actions(actor)
        action_is_valid == actions_are_valid(actions, actor)
        invalid == {p \in Seats :
                       IF p = actor THEN ~action_is_valid
                       ELSE variant = "sim" /\ ~InList(actions[p], get_available_actions(p))}
        card == IF action_is_valid THEN action ELSE pick
        h1 == [hands EXCEPT ![actor] = remove_card(@, card)]
        t1 == [table EXCEPT ![actor] = add_cards(@, card)]
        n1 == n_cards_on_table + 1
        completes == ~(n1 < 4)
        trick_raises == IF completes THEN TrickRaises(t1, n1) ELSE "none"
        trick_winner == IF completes THEN _get_trick_winner(t1, current_suit) ELSE NoPlayer
        next_player == IF completes THEN trick_winner ELSE _get_next_player(actor)
        cs2 == IF completes THEN None ELSE LedSuitAfter(current_suit, card)
        t2 == IF completes THEN ClearedTable(t1) ELSE t1
        pt2 == IF completes THEN ClearedTricks(t1) ELSE played_tricks
        n2 == IF completes THEN 0 ELSE n1
        tp2 == IF completes THEN tricks_played + 1 ELSE tricks_played
        won2 == IF completes
                THEN [won_tricks EXCEPT ![trick_winner] = @ + 1,
                                        ![Partner(trick_winner)] = @ + 1]
                ELSE won_tricks
        rewards_raises == IF variant = "seq" THEN RewardsSeqRaises(trick_winner, h1, tp2)
                          ELSE "none"
        rw2 == IF variant = "seq"
               THEN _get_rewards_seq(trick_winner, action_is_valid, actor, h1, tp2, won2)
               ELSE _get_rewards_sim(trick_winner, invalid, tp2, won2)
        unserved == last.pending \cup (IF action_is_valid THEN {} ELSE {actor})
        rec == [NoStep EXCEPT !.op = "step", !.player = actor, !.actions = actions,
                              !.legal = legal, !.card = card, !.valid = action_is_valid,
                              !.invalid = invalid, !.pending = unserved]
    IN  IF trick_raises # "none"
        THEN Commit(h1, t1, played_tricks, won_tricks, current_suit, n1, tricks_played,
                    rewards, actor, [rec EXCEPT !.raised = trick_raises])
        ELSE IF rewards_raises # "none"
        THEN Commit(h1, t2, pt2, won2, cs2, n2, tp2, rewards, actor,
                    [rec EXCEPT !.raised = rewards_raises, !.trick_winner = trick_winner])
        ELSE Commit(h1, t2, pt2, won2, cs2, n2, tp2, rw2, next_player,
                    [rec EXCEPT !.trick_winner = trick_winner,
                                !.observed = IF variant = "seq"
                                             THEN Reported(actor, next_player)
                                             ELSE NoPlayer,
                                !.reward = IF variant = "seq"
                                           THEN rw2[Reported(actor, next_player)] ELSE 0,
                                !.done = variant = "seq"
                                         /\ is_empty(h1[Reported(actor, next_player)]),
                                !.dones = IF variant = "sim" THEN Dones(h1)
                                          ELSE [p \in Seats |-> FALSE],
                                !.pending = unserved \ {next_player},
                                !.owed = next_player \in unserved])

\* the action map in which the active seat proposes a
ActionMap(actor, a) ==
    [p \in Seats |-> IF p = actor THEN a
                     ELSE IF variant = "sim" THEN Placeholder ELSE None]

\* step(action) of BridgeEnv, step(actions) of BridgeSimultaneousActionsEnv
Step ==
    IF active_player = NoPlayer
    THEN StepRejected(IF variant = "seq" THEN "AssertionError" ELSE "KeyError",
                      [p \in Seats |-> None])
    ELSE LET actor == active_player
             legal == LegalOf(hands[actor], current_suit)
             first == IF Len(legal) > 0 THEN legal[1] ELSE Placeholder
             maps == {ActionMap(actor, first)}
                     \cup (IF free /\ FreeNow /\ Len(legal) > 0
                           THEN {ActionMap(actor, a) : a \in ActionMenu(actor)}
                                \cup (IF variant = "sim"
                                      THEN ActionMaps(actor, first)
                                           \cup ActionMaps(actor, NumCards)
                                      ELSE {})
                           ELSE {})
         IN  \E actions \in maps :
                /\ free' = (free /\ actions = ActionMap(actor, first))
                /\ IF Len(legal) = 0
                   THEN StepRejected("IndexError", actions)
                   ELSE \E pick \in (IF actions_are_valid(actions, actor)
                                     THEN {actions[actor]} ELSE Elems(legal)) :
                            _game_controller(actions, pick)

Next == Reset \/ Step

Spec == Init /\ [][Next]_vars

\* runs in which the caller also calls seed(); the env is constructed in mode
\* win_tricks
InitSeed == Init /\ reward_mode = "win_tricks"

NextSeed == Seed \/ Reset \/ Step

SpecSeed == InitSeed /\ [][NextSeed]_vars

\* runs in which the caller also resets with an initial_state dict; the env is
\* constructed in mode play_cards, the caller proposes the first available
\* action in every step call, and a caller whose reset call raised makes no step
\* call before a reset call has succeeded
InitConfig == Init /\ reward_mode = "play_cards"

ResetFailed == last.op = "reset" /\ last.raised # "none"

StepLive == ~ResetFailed /\ Step /\ free' = free

NextConfig == ResetConfig \/ Reset \/ StepLive \/ GetNextPlayer

SpecConfig == InitConfig /\ [][NextConfig]_vars

(***************************************************************************)
(* Vocabulary of the properties, independent of the operators above.       *)
(***************************************************************************)
Cards == 0..(NumCards-1)

Clockwise == [p \in Seats |-> CASE p = "N" -> "E" [] p = "E" -> "S"
                                [] p = "S" -> "W" [] p = "W" -> "N"]

AllHandsEmpty == \A p \in Seats : hands[p] = << >>

Started == active_player # NoPlayer

\* every list of the state that can hold a card
Slots ==
    {hands[p] : p \in Seats} \cup {table[p] : p \in Seats}
    \cup {played_tricks[i][p] : i \in 0..(NumTricks-1), p \in Seats}

\* how often card c occurs in the hands, on the table and in the history
Occurrences(c) ==
    LET InHands == {p \in Seats : InList(c, hands[p])}
        OnTable == {p \in Seats : InList(c, table[p])}
        InHistory == {ip \in (0..(NumTricks-1)) \X Seats : InList(c, played_tricks[ip[1]][ip[2]])}
    IN  Cardinality(InHands) + Cardinality(OnTable) + Cardinality(InHistory)

\* number of cards that left the hands in this episode
CardsPlayed ==
    LET held == Len(hands["N"]) + Len(hands["E"]) + Len(hands["S"]) + Len(hands["W"])
    IN  NumCards - held

\* the seats with a card on the table, and the one of them that played first
TableSeats == {p \in Seats : table[p] # << >>}
Leader == CHOOSE p \in TableSeats : Clockwise[Clockwise[Clockwise[p]]] \notin TableSeats
LedSuit == table[Leader][1] % 4

\* the card a transition took out of hand h
Moved(h, h2) == {c \in Elems(h) : Count(c, h2) = Count(c, h) - 1}

\* the transition is a step call that played a card / that also returned
StepPlayed == last'.op = "step" /\ last'.card # None
StepReturned == StepPlayed /\ last'.raised = "none"

\* bridge rule for a complete trick (seat -> card) with the given led suit
Winners(trick, led) ==
    LET trumps == {p \in Seats : trump # None /\ trick[p] % 4 = trump}
        pool == IF trumps # {} THEN trumps ELSE {p \in Seats : trick[p] % 4 = led}
    IN  {p \in pool : \A q \in pool : trick[q] \div 4 <= trick[p] \div 4}

\* the trick stored last, as seat -> card, and its led suit: the seat leading it
\* is the one clockwise next to the seat that played its fourth card
LastTrick == [p \in Seats |-> played_tricks[tricks_played - 1][p][1]]
LastLed == LastTrick[Clockwise[last.player]] % 4

\* the follow-suit rule stated on the table: the cards the seat may play
LegalCards(p) ==
    LET held == Elems(hands[p])
        follow == {c \in held : c % 4 = LedSuit}
    IN  IF TableSeats = {} THEN held
        ELSE IF follow = {} THEN held ELSE follow

\* number of list entries in the hands, on the table and in the history
RECURSIVE HistoryEntries(_)
HistoryEntries(i) ==
    IF i < 0 THEN 0
    ELSE Len(played_tricks[i]["N"]) + Len(played_tricks[i]["E"])
         + Len(played_tricks[i]["S"]) + Len(played_tricks[i]["W"]) + HistoryEntries(i - 1)

TotalEntries ==
    Len(hands["N"]) + Len(hands["E"]) + Len(hands["S"]) + Len(hands["W"])
    + Len(table["N"]) + Len(table["E"]) + Len(table["S"]) + Len(table["W"])
    + HistoryEntries(NumTricks - 1)

AllEntries == UNION {Elems(sl) : sl \in Slots}

(***************************************************************************)
(* Properties.                                                             *)
(***************************************************************************)
\* C1: once an episode is started by reset, in every state (either env, legal or
\* illegal proposals, also after a step call that raised) the hands, the table
\* slots and the history slots hold 52 entries in all and every card 0..51 is
\* among them: each card occurs exactly once.
C1_Partition == Started => (TotalEntries = NumCards /\ AllEntries = Cards)

\* C1 witness: cards in all three places, the last one put there by substitution
C1_Witness ==
    /\ Started /\ tricks_played >= 1 /\ n_cards_on_table >= 1
    /\ last.op = "step" /\ ~last.valid /\ last.card # None

\* C2: whenever a step call plays a card while a suit is led on the table and
\* the active seat holds a card of that suit, the card that leaves the hand is
\* of the led suit and lies in that seat's table slot or history entry.
C2_Legality ==
    [][ (StepPlayed /\ TableSeats # {}
         /\ \E c \in Elems(hands[active_player]) : c % 4 = LedSuit)
        => LET actor == active_player
               moved == Moved(hands[actor], hands'[actor])
           IN  /\ Cardinality(moved) = 1
               /\ \A c \in moved :
                    /\ c % 4 = LedSuit
                    /\ \/ table'[actor] = <<c>>
                       \/ played_tricks'[tricks_played][actor] = <<c>> ]_vars

\* C2 witness: a proposal outside the legal set was replaced by a card of the led
\* suit although the seat held cards of other suits too
C2_Witness ==
    /\ last.op = "step" /\ ~last.valid /\ last.card # None
    /\ n_cards_on_table >= 2 /\ last.card % 4 = current_suit
    /\ Len(last.legal) < Len(hands[last.player]) + 1

\* C3: in either env and every reward mode no step call raises before the 52nd
\* card is played, and the hands are empty exactly when 52 cards are played and
\* 13 tricks are resolved.
C3_EpisodeLength ==
    Started =>
        /\ (last.raised # "none" => CardsPlayed = NumCards /\ AllHandsEmpty)
        /\ (AllHandsEmpty <=> CardsPlayed = NumCards)
        /\ (AllHandsEmpty => tricks_played = NumTricks /\ n_cards_on_table = 0)

\* C4: a step call in a state where the episode is not over raises no error and
\* moves exactly one card of the active seat's legal set from its hand to its
\* table slot (or, on the fourth card, to its history entry), whatever value
\* was proposed; the other hands are untouched.
C4_NeverRejected ==
    [][ (last'.op = "step" /\ Started /\ ~AllHandsEmpty)
        => /\ last'.raised = "none"
           /\ \E c \in LegalCards(active_player) :
                /\ hands' = [hands EXCEPT ![active_player] = remove_card(@, c)]
                /\ \/ table' = [table EXCEPT ![active_player] = <<c>>]
                   \/ /\ table' = EmptyHands
                      /\ played_tricks'[tricks_played][active_player] = <<c>> ]_vars

\* C5: in every state of a started episode the available actions of the active
\* seat are its whole hand when the table is empty, else its cards of the suit
\* of the first card on the table, or its whole hand when it has none of them.
C5_LegalSet ==
    Started => Elems(get_available_actions(active_player)) = LegalCards(active_player)

\* C5 witness: simultaneous env, the led suit restricts the active seat
C5_Witness ==
    /\ Started /\ variant = "sim" /\ TableSeats # {}
    /\ LegalCards(active_player) # Elems(hands[active_player])
    /\ LegalCards(active_player) # {}

\* C6: when a step call completes a trick, the winner the env computes is the
\* one seat with the highest-rank trump if a trump suit is set and a trump was
\* played, otherwise the one seat with the highest-rank card of the led suit;
\* there is exactly one such seat.
C6_TrickWinner ==
    (last.op = "step" /\ last.trick_winner # NoPlayer)
    => /\ Cardinality(Winners(LastTrick, LastLed)) = 1
       /\ last.trick_winner \in Winners(LastTrick, LastLed)

\* C6 witness: a trump wins a trick in which a higher-rank card of the led suit
\* was played
C6_Witness ==
    /\ last.op = "step" /\ last.trick_winner # NoPlayer
    /\ trump # None /\ LastLed # trump
    /\ LastTrick[last.trick_winner] % 4 = trump
    /\ \E q \in Seats : /\ LastTrick[q] % 4 = LastLed
                        /\ LastTrick[q] \div 4 > LastTrick[last.trick_winner] \div 4

HistoryShape ==
    \A i \in 0..(NumTricks-1) : \A p \in Seats :
        Len(played_tricks[i][p]) = IF i < tricks_played THEN 1 ELSE 0

C9_WonTricks ==
    [][ StepPlayed
        => IF Cardinality(TableSeats) = 3
           THEN \E w \in Winners(LastTrick', LastLed') :
                    won_tricks' = [p \in Seats |->
                                      IF p \in {w, Clockwise[Clockwise[w]]}
                                      THEN won_tricks[p] + 1 ELSE won_tricks[p]]
           ELSE won_tricks' = won_tricks ]_vars

\* C9 witness: simultaneous env, a pair was credited its second trick
C9_Witness ==
    /\ variant = "sim" /\ last.op = "step" /\ last.trick_winner # NoPlayer
    /\ won_tricks[last.trick_winner] >= 2
    /\ won_tricks[Clockwise[last.trick_winner]] >= 1

\* C10: the done flag a step call of the sequential env returns is true exactly
\* when all four hands are empty after the call, which is the case only when
\* all 13 tricks are resolved.
C10_Done ==
    (variant = "seq" /\ last.op = "step" /\ last.raised = "none")
    => /\ last.done <=> AllHandsEmpty
       /\ last.done => (tricks_played = NumTricks /\ CardsPlayed = NumCards)

\* C10 witness: the 52nd play returned done
C10_Witness ==
    /\ variant = "seq" /\ last.op = "step" /\ last.done
    /\ ~last.valid

\* C11: a step call of the simultaneous env plays exactly one card, decided by
\* the active seat's entry alone: the entry itself when it is legal, else some
\* legal card of that seat.  The other hands, the other table slots, the history
\* and the resulting active seat are what the state before the call and that one
\* card determine, whatever the other three entries are.
C11_OneCard ==
    [][ (variant = "sim" /\ StepPlayed)
        => LET actor == active_player
               a == last'.actions[actor]
           IN  \E c \in LegalCards(actor) :
                /\ a \in LegalCards(actor) => c = a
                /\ Moved(hands[actor], hands'[actor]) = {c}
                /\ Len(hands'[actor]) = Len(hands[actor]) - 1
                /\ \A q \in Seats \ {actor} : hands'[q] = hands[q]
                /\ IF Cardinality(TableSeats) = 3
                   THEN /\ table' = EmptyHands
                        /\ played_tricks' =
                             [played_tricks EXCEPT ![tricks_played] =
                                 [p \in Seats |-> IF p = actor THEN <<c>> ELSE table[p]]]
                        /\ {active_player'} = Winners(LastTrick', LastLed')
                   ELSE /\ table' = [table EXCEPT ![actor] = <<c>>]
                        /\ played_tricks' = played_tricks
                        /\ active_player' = Clockwise[actor] ]_vars

\* C11 witness: a seat that is not active submitted a card of its own while the
\* active seat's legal entry was played and completed a trick
C11_Witness ==
    /\ variant = "sim" /\ last.op = "step" /\ last.valid /\ last.card # None
    /\ last.card = last.actions[last.player]
    /\ \E q \in Seats \ {last.player} : last.actions[q] \in Cards
    /\ last.trick_winner # NoPlayer

\* the last call was a step call that returned a reward map
Returned == last.op = "step" /\ last.raised = "none" /\ last.card # None

\* C12: in either env, whenever the acting seat proposed a value outside its
\* legal set, the reward map of that step gives the acting seat -1000 in mode
\* win_points and -2 in modes play_cards, win and win_tricks, whatever card was
\* substituted and whether or not the step completed a trick.
C12_Penalty ==
    (Returned /\ ~last.valid)
    => rewards[last.player] = IF reward_mode = "win_points" THEN -1000 ELSE -2

\* C13: in mode play_cards, in either env, the reward map of a step in which
\* the acting seat's proposal was legal gives the acting seat exactly +1.
C13_PlayCardsLegal ==
    (reward_mode = "play_cards" /\ Returned /\ last.valid)
    => rewards[last.player] = 1

\* C14: in mode play_cards the reward map of a step holds 0 for every seat
\* other than the acting seat whose own entry was not invalid in that call;
\* nothing an earlier step or an earlier episode assigned is left in the map.
C14_PlayCardsOthers ==
    (reward_mode = "play_cards" /\ Returned)
    => \A p \in Seats \ {last.player} : p \notin last.invalid => rewards[p] = 0

\* the map that holds 1 for a seat and its partner and 0 for the other pair
PairMap(w) == [p \in Seats |-> IF p \in {w, Clockwise[Clockwise[w]]} THEN 1 ELSE 0]

\* C15: in mode win_tricks, after every step that completes one of the tricks
\* 1..12 with no invalid entry, the reward map is exactly 1 for the winner of
\* that trick and its partner and 0 for the two seats of the other pair.
C15_WinTricksCompleted ==
    (reward_mode = "win_tricks" /\ Returned /\ last.invalid = {}
     /\ last.trick_winner # NoPlayer /\ tricks_played < NumTricks)
    => \E w \in Winners(LastTrick, LastLed) : rewards = PairMap(w)

\* C16: in mode win_tricks, after every step that does not complete a trick
\* and has no invalid entry, all four entries of the reward map are 0.
C16_WinTricksBetween ==
    (reward_mode = "win_tricks" /\ Returned /\ last.invalid = {}
     /\ last.trick_winner = NoPlayer)
    => rewards = [p \in Seats |-> 0]

\* the contract outcome: 1 for declarer and dummy and 0 for the defenders when
\* declarer's pair won at least contract_value + 6 tricks, else the reverse
Outcome ==
    LET declarer == players_roles.declarer
        made == won_tricks[declarer] >= contract_value + 6
    IN  [p \in Seats |->
            IF p \in {declarer, Clockwise[Clockwise[declarer]]}
            THEN (IF made THEN 1 ELSE 0) ELSE (IF made THEN 0 ELSE 1)]

WinModes == {"win", "win_points"}

\* C17: in modes win and win_points, in either env, the step calls of the 13th
\* trick with no invalid entry return a reward map, and the map of the one that
\* plays the 52nd card is the contract outcome computed from won_tricks after
\* all 13 tricks.
C17_FinalContract ==
    [][ (reward_mode \in WinModes /\ last'.op = "step" /\ Started
         /\ tricks_played = NumTricks - 1 /\ ~AllHandsEmpty
         /\ last'.valid /\ last'.invalid = {})
        => /\ last'.raised = "none"
           /\ CardsPlayed' = NumCards => rewards' = Outcome' ]_vars

\* C18: in modes win and win_points, after every step with no invalid entry
\* that leaves the episode unfinished, all four entries of the reward map are
\* 0: no contract outcome before the 13th trick is resolved, no penalty of an
\* earlier step, nothing of an earlier episode.
C18_ZeroDuringPlay ==
    (reward_mode \in WinModes /\ Returned /\ last.invalid = {} /\ ~AllHandsEmpty)
    => rewards = [p \in Seats |-> 0]

\* the reward map of the first step call of an episode with no invalid entry,
\* as a freshly constructed env produces it
FreshFirstMap(actor) ==
    [p \in Seats |->
        IF variant = "seq" /\ reward_mode = "play_cards" /\ p = actor THEN 1 ELSE 0]

\* C19: the reward map of a step depends on the game state before it, the
\* validity of the action and the trick outcome only.  Hence reset leaves an
\* all-zero map, and the first step call of any episode with no invalid entry
\* produces the map that the same call produces on a freshly constructed env,
\* whatever happened in an episode before the reset.
C19_Pure ==
    [][ /\ last'.op = "reset" => rewards' = [p \in Seats |-> 0]
        /\ (StepReturned /\ CardsPlayed = 0 /\ last'.invalid = {})
           => rewards' = FreshFirstMap(active_player) ]_vars

\* C20: two runs that call seed(s) with the same seed and then reset are dealt
\* the same hands: a reset call that directly follows seed(s) deals the hands
\* that the first reset call directly following seed(s) dealt.
C20_Replay ==
    [][ (last'.op = "reset" /\ last.op = "seed" /\ dealt[np_random] # NoDeal)
        => hands' = dealt[np_random] ]_vars

\* C21: a step call that raises leaves the hands, the table, the history,
\* won_tricks, the led suit, the cards-on-table count, tricks_played and the
\* active seat exactly as they were before the call.
C21_Atomic ==
    [][ (last'.op = "step" /\ last'.raised # "none")
        => UNCHANGED <<hands, table, played_tricks, won_tricks, current_suit,
                       n_cards_on_table, tricks_played, active_player>> ]_vars

\* hands that are a deal: 13 entries per seat, every card 0..51 among them
WellFormed(h) ==
    /\ \A p \in Seats : Len(h[p]) = NumTricks
    /\ UNION {Elems(h[p]) : p \in Seats} = Cards

\* the reset call of the transition was given pinned hands
HandsPinned == last'.op = "reset" /\ "hands" \in last'.config.keys

\* C22: a reset call given pinned hands in which a seat has not 13 cards, a card
\* occurs twice or a card id is outside 0..51 raises an error, and no episode
\* is started with these hands.
C22_RejectsMalformed ==
    [][ (HandsPinned /\ ~WellFormed(last'.config.hands))
        => /\ last'.raised # "none"
           /\ hands' # last'.config.hands ]_vars

\* C23: a reset call whose pinned declarer is not one of N, E, S, W raises an
\* error and starts no episode (roles, contract, hands, table, history and
\* active seat stay as they were), and a call of _get_next_player for a value
\* that is not a seat raises an error.
C23_InvalidSeat ==
    [][ /\ (last'.op = "reset" /\ "player" \in last'.config.keys
            /\ last'.config.player \notin Seats)
           => /\ last'.raised # "none"
              /\ UNCHANGED <<players_roles, trump, contract_value, active_player,
                             hands, table, played_tricks, won_tricks, current_suit>>
        /\ (last'.op = "next" /\ last'.config.player \notin Seats)
           => last'.raised # "none" ]_vars

\* C23 witness: a reset call with declarer "X" in the middle of a trick raised
C23_Witness ==
    /\ last.op = "reset" /\ last.raised = "Exception"
    /\ last.config.player = "X"
    /\ TableSeats # {} /\ active_player # NoPlayer

\* C24: after a reset call that returns, whatever the state it was called in
\* (constructed, mid-trick, mid-episode, finished), tricks_played and the
\* cards-on-table count are 0, all table slots and all 13 history entries are
\* empty, every won_tricks entry is 0, no suit is led, and the active seat is
\* the seat clockwise next to the declarer.
C24_ResetReinit ==
    [][ (last'.op = "reset" /\ last'.raised = "none")
        => /\ tricks_played' = 0
           /\ n_cards_on_table' = 0
           /\ \A p \in Seats : table'[p] = << >>
           /\ \A i \in 0..(NumTricks-1) : \A p \in Seats : played_tricks'[i][p] = << >>
           /\ \A p \in Seats : won_tricks'[p] = 0
           /\ current_suit' = None
           /\ players_roles'.declarer \in Seats
           /\ active_player' = Clockwise[players_roles'.declarer] ]_vars

\* C24 witness: a second reset, with a pinned declarer, came after step calls
\* of a first episode (their rewards are still in the map)
C24_Witness ==
    /\ last.op = "reset" /\ last.raised = "none" /\ resets = 2
    /\ "player" \in last.config.keys
    /\ \E p \in Seats : rewards[p] # 0
    /\ active_player = Clockwise[last.config.player]

\* the value a reset config pins for a key, if the key is present
Pins(key) == last'.op = "reset" /\ last'.raised = "none" /\ key \in last'.config.keys

\* the reset call of the transition returned and left the key to the env
Omits(key) == last'.op = "reset" /\ last'.raised = "none" /\ key \notin last'.config.keys

\* C25: after a reset call that returns, in either env, a pinned declarer,
\* trump (no-trump included) or contract value is the value in force, and an
\* omitted one lies in its domain: declarer in N, E, S, W, trump in the four
\* suits or no-trump, contract value in 1..7.
C25_ResetConfig ==
    [][ /\ Pins("player") => players_roles'.declarer = last'.config.player
        /\ Pins("trump") => trump' = last'.config.trump
        /\ Pins("contract_value") => contract_value' = last'.config.contract_value
        /\ Omits("player") => players_roles'.declarer \in Seats
        /\ Omits("trump") => trump' \in {0, 1, 2, 3, None}
        /\ Omits("contract_value") => contract_value' \in 1..7 ]_vars

\* the transition is a reset call whose config names a valid declarer or none
ResetCalled == last'.op = "reset" /\ last'.raised # "Exception"

\* C26: a reset in which hands are not pinned (no config, or a config without
\* hands) deals: afterwards each seat holds exactly 13 cards and the four
\* hands partition 0..51; a reset with pinned hands leaves each seat holding
\* exactly the pinned cards.
C26_Deal ==
    [][ ResetCalled =>
            IF "hands" \in last'.config.keys
            THEN \A p \in Seats : Elems(hands'[p]) = Elems(last'.config.hands[p])
                                  /\ Len(hands'[p]) = Len(last'.config.hands[p])
            ELSE WellFormed(hands') ]_vars

\* the four roles as the claim lays them out around the declarer
RolesAround(d) ==
    [declarer |-> d,
     defender_1 |-> Clockwise[d],
     dummy |-> Clockwise[Clockwise[d]],
     defender_2 |-> Clockwise[Clockwise[Clockwise[d]]]]

\* C27: in every state reached from a reset with declarer d, defender_1 is the
\* seat one step clockwise from d, dummy two steps and defender_2 three steps,
\* so the roles are a bijection onto the seats; and no step call changes the
\* roles, the trump or the contract value.
C27_RolesFixed ==
    [][ /\ players_roles' # NoRoles =>
            /\ players_roles'.declarer \in Seats
            /\ players_roles' = RolesAround(players_roles'.declarer)
            /\ {players_roles'.declarer, players_roles'.defender_1,
                players_roles'.dummy, players_roles'.defender_2} = Seats
        /\ last'.op = "step" => UNCHANGED <<players_roles, trump, contract_value>> ]_vars

\* a step has completed a trick of an episode whose declarer is East
C27_Witness ==
    /\ last.op = "step"
    /\ last.trick_winner # NoPlayer
    /\ tricks_played >= 1
    /\ players_roles = RolesAround("E")

\* C28: every step call of an episode in play (the active seat holds a card)
\* removes exactly one card from the hand of the seat that was active before
\* the call and leaves the other three hands unchanged; no step call adds a
\* card to any hand.
C28_HandsFrame ==
    [][ last'.op = "step" =>
            LET actor == active_player
            IN  /\ \A q \in Seats \ {actor} : hands'[q] = hands[q]
                /\ \A q \in Seats : \A c \in Cards : Count(c, hands'[q]) <= Count(c, hands[q])
                /\ (actor \in Seats /\ hands[actor] # << >>) =>
                        /\ Len(hands'[actor]) = Len(hands[actor]) - 1
                        /\ Cardinality(Moved(hands[actor], hands'[actor])) = 1
                        /\ \A c \in Elems(hands[actor]) \ Moved(hands[actor], hands'[actor]) :
                                Count(c, hands'[actor]) = Count(c, hands[actor]) ]_vars

\* a step replaced an illegal proposal and took the substitute out of the
\* active seat's hand in the middle of a trick
C28_Witness ==
    /\ last.op = "step" /\ ~last.valid /\ last.card # None
    /\ last.player \in Seats
    /\ ~InList(last.card, hands[last.player])
    /\ n_cards_on_table = 2
    /\ \E p \in Seats : Len(hands[p]) > Len(hands[last.player])

BonusMap(w, x) == [p \in Seats |-> PairMap(w)[p] + PairMap(x)[p]]

\* C30: in mode win_tricks of the sequential env, with no invalid entry, the
\* step that completes the 13th trick returns the per-trick map plus 1 for the
\* seat picked by the lookahead and for its partner, and the step that
\* completes any earlier trick returns the plain 1/0 per-trick map.
C30_LookaheadTiming ==
    (variant = "seq" /\ reward_mode = "win_tricks" /\ Returned /\ last.invalid = {}
     /\ last.trick_winner # NoPlayer)
    => \E w \in Winners(LastTrick, LastLed) :
            IF tricks_played = NumTricks
            THEN \E x \in Seats : rewards = BonusMap(w, x)
            ELSE rewards = PairMap(w)

\* C31: in every state of an episode in which some seat still holds a card, the
\* active seat's hand is non-empty and its legal set is a non-empty sub-list of
\* its hand, so that a step call finds a card to remove: no step call made in
\* such a state fails on an empty or mismatching hand.
C31_CardPresent ==
    [][ (Started' /\ ~AllHandsEmpty') =>
            /\ hands'[active_player'] # << >>
            /\ LegalOf(hands'[active_player'], current_suit') # << >>
            /\ Elems(LegalOf(hands'[active_player'], current_suit'))
                    \subseteq Elems(hands'[active_player'])
            /\ (Started /\ ~AllHandsEmpty /\ last'.op = "step")
                    => last'.raised \notin {"IndexError", "ValueError"} ]_vars

\* the trick a step call completes, as seat -> card: the three cards on the
\* table and the card the call played
CompletedTrick ==
    [p \in Seats |-> IF p = active_player THEN last'.card ELSE table[p][1]]

\* C32: between calls the led suit is null exactly when the table is empty, and
\* otherwise it is the suit (card mod 4) of the first card played to the open
\* trick; it does not change while the trick stays open, and the winner of a
\* trick completed by the fourth card is resolved with it.
C32_LedSuit ==
    [][ /\ Started' =>
            /\ (current_suit' = None) <=> (\A p \in Seats : table'[p] = << >>)
            /\ (\E p \in Seats : table'[p] # << >>) => current_suit' = LedSuit'
        /\ (last'.op = "step" /\ TableSeats # {} /\ (\E p \in Seats : table'[p] # << >>))
            => current_suit' = current_suit
        /\ (StepReturned /\ Cardinality(TableSeats) = 3)
            => /\ current_suit = LedSuit
               /\ last'.trick_winner \in Winners(CompletedTrick, current_suit) ]_vars

\* a step has played the third card of a trick, of another suit than the one
\* led, and the led suit stands
C32_Witness ==
    /\ last.op = "step" /\ last.raised = "none" /\ last.card # None
    /\ n_cards_on_table = 3
    /\ current_suit # None
    /\ last.card % 4 # current_suit

C34_ReportsNextSeat ==
    (variant = "seq" /\ Returned) =>
        /\ active_player = (IF last.trick_winner # NoPlayer THEN last.trick_winner
                            ELSE Clockwise[last.player])
        /\ last.observed = active_player
        /\ get_player_observation(last.observed).player_hand = hands[active_player]
        /\ get_player_observation(last.observed).player_position
                = get_player_observation(last.observed).active_player_position
        /\ last.reward = rewards[active_player]
        /\ last.done = (hands[active_player] = << >>)

\* the acting seat proposed an illegal card in mid-trick and the call reported
\* another reward than the acting seat's entry
C34_Witness ==
    /\ variant = "seq" /\ Returned /\ ~last.valid
    /\ last.trick_winner = NoPlayer
    /\ last.observed # last.player
    /\ rewards[last.player] # rewards[active_player]
    /\ last.reward = rewards[active_player]

C36_DonesPerSeat ==
    (variant = "sim" /\ Returned) =>
        /\ \A p \in Seats : last.dones[p] <=> (hands[p] = << >>)
        /\ (tricks_played = NumTricks - 1)
                => {p \in Seats : last.dones[p]} = TableSeats
        /\ (\A p \in Seats : last.dones[p]) <=> (CardsPlayed = NumCards)
        /\ tricks_played < NumTricks - 1 => \A p \in Seats : ~last.dones[p]

\* the 13th trick is open: two seats have played their last card and are
\* done, two are not
C36_Witness ==
    /\ variant = "sim" /\ Returned
    /\ tricks_played = NumTricks - 1 /\ n_cards_on_table = 2
    /\ Cardinality({p \in Seats : last.dones[p]}) = 2

Before == [p \in Seats |-> Clockwise[Clockwise[Clockwise[p]]]]
Preceding(p, n) ==
    (IF n >= 1 THEN {Before[p]} ELSE {})
    \cup (IF n >= 2 THEN {Before[Before[p]]} ELSE {})
    \cup (IF n >= 3 THEN {Before[Before[Before[p]]]} ELSE {})

\* C38: in every state of an episode dealt 13 cards per seat, a seat that has
\* played to the open trick holds 13 - tricks_played - 1 cards and every other
\* seat holds 13 - tricks_played cards, and the seats that have played to the
\* open trick are the cards-on-table-many seats immediately before the active
\* seat in clockwise order.
C38_HandSizes ==
    Started =>
        /\ TableSeats = Preceding(active_player, n_cards_on_table)
        /\ \A p \in Seats :
                Len(hands[p]) = NumTricks - tricks_played
                                - (IF p \in TableSeats THEN 1 ELSE 0)

\* the penalty of the mode
Penalty == IF reward_mode = "win_points" THEN -1000 ELSE -2

\* C39: in the sequential env and every reward mode, the step call that makes
\* a seat active again after that seat proposed an illegal action returns the
\* penalty as its reward, and until then no step call overwrites the penalty
\* in that seat's entry of the reward map.
C39_PenaltyDelivered ==
    (variant = "seq" /\ Returned) =>
        /\ last.owed => last.reward = Penalty
        /\ \A q \in last.pending : rewards[q] = Penalty

\* C40: in the simultaneous env with integer actions, in every step call and
\* every reward mode, the entry of a seat that is not active is invalid exactly
\* when it differs from the placeholder -1; a non-active seat that submitted
\* another value, a card it holds included, has -1000 in the reward map of that
\* call, and a non-active seat that submitted -1 does not.
C40_PlaceholderRule ==
    (variant = "sim" /\ Returned) =>
        \A q \in Seats \ {last.player} :
            /\ (q \in last.invalid) <=> (last.actions[q] # Placeholder)
            /\ last.actions[q] # Placeholder => rewards[q] = -1000
            /\ last.actions[q] = Placeholder => rewards[q] # -1000

====
